---- MODULE Spec2Model ----
(***************************************************************************)
(* Model of LutheringLaves.py: the Launcher object (version state machine,  *)
(* resumable downloader, install / update / verify passes, patch staging)   *)
(* driven by the command-line entry point at the bottom of the file.        *)
(*                                                                          *)
(* The disk is a partial function from paths to byte sequences, the remote  *)
(* servers are nondeterministic inputs of the step that queries them, and   *)
(* an exception that leaves the entry point ends the process ("crashed").   *)
(***************************************************************************)
EXTENDS Integers, Sequences, FiniteSets, TLC

\* Number of resource entries of the manifest's resource index.
NumRes == 2
\* Bytes returned by one rsp.read(...) call (1024 * 1024 in the source, scaled).
ChunkSize == 1

VARIABLES
    pc,             \* next statement of the entry point, "done" or "crashed"
    crashedIn,      \* routine the uncaught exception came out of
    idx,            \* 0: the routine at pc has not begun; k: next resource of its loop
    mode,           \* args.mode
    state,          \* Launcher.state
    launcher_info,  \* "unset" | "None" | "ok"
    gamefile_index, \* "unset" | "None" | "ok"
    local_version,  \* Launcher.local_version, read once at construction
    marker,         \* version field of launcherDownloadConfig.json on disk
    markerWrites,   \* number of calls of update_localVersion so far
    files,          \* the files under the game folder: path -> content
    dirs,           \* the directories under the game folder that exist
    progress,       \* the four ProgressInfo objects
    support_incremental_patching,
    gamefile_index_patch, \* the patch index document, NoPatchIndex for None
    krdiff_file_path,     \* Launcher.krdiff_file_path
    temp_folder,          \* whether temp_folder exists on disk
    lastFetch,      \* the download_file_with_resume call made by the last step
    temp_files,     \* the files under temp_folder: relative path -> content
    temp_dirs,      \* the directories under temp_folder
    merge_items,    \* entries of temp_folder the merge loop has yet to handle
    base_files,     \* files under base_dir outside the game folder
    hpatchz,        \* what run_hpatchz did: tool download result, exit status
    cdnlist,        \* launcher_info['default']['cdnList'] as served, <<>> if absent
    cdn_node,       \* Launcher.cdn_node
    patchConfig     \* launcher_info['default']['config']['patchConfig'] as served

\* the state only merge_patch touches
mergeVars == <<temp_files, temp_dirs, merge_items, base_files, hpatchz>>

vars == <<pc, crashedIn, idx, mode, state, launcher_info, gamefile_index,
          local_version, marker, markerWrites, files, dirs, progress,
          support_incremental_patching, gamefile_index_patch, krdiff_file_path,
          temp_folder, lastFetch, temp_files, temp_dirs, merge_items,
          base_files, hpatchz, cdnlist, cdn_node, patchConfig>>

\* the state only select_cdn touches
cdnVars == <<cdnlist, cdn_node>>

None == "None"

\* ------------------------------------------------------------------------
\* Manifest data

\* version of the manifest served by WW_LAUNCHER_API
current_version == "v2"

Versions == {"v1", "v2"}

PaksDir == <<"Client", "Content", "Paks">>
BinDir == <<"Client", "Binaries">>

Names == <<"game.exe", "pakchunk0.pak", "launcher.dll", "pakchunk1.pak">>

ResSize(i) == IF i % 2 = 1 THEN 2 ELSE 1

\* the content the manifest describes, and a corrupted variant of it
Good(i) == [k \in 1..ResSize(i) |-> i]
Bad(i) == [k \in 1..ResSize(i) |-> 0]

RECURSIVE md5(_)
md5(content) ==
    IF content = <<>> THEN 7
    ELSE (31 * md5(SubSeq(content, 1, Len(content) - 1))
            + content[Len(content)] + 1) % 997

Dest(i) == [dir |-> IF i % 2 = 1 THEN BinDir ELSE PaksDir,
            name |-> Names[i], temp |-> FALSE]

Resource(i) == [dest |-> Dest(i), size |-> ResSize(i), md5 |-> md5(Good(i))]

resource_list == [i \in 1..NumRes |-> Resource(i)]

\* directory / f'{file_path.name}.temp'
TempOf(p) == [p EXCEPT !.temp = TRUE]

\* a file the manifest does not list, lying in the packed-resource directory
StalePak == [dir |-> PaksDir, name |-> "stale.pak", temp |-> FALSE]

RECURSIVE SumSizes(_)
SumSizes(n) == IF n = 0 THEN 0 ELSE resource_list[n].size + SumSizes(n - 1)

\* ------------------------------------------------------------------------
\* Disk helpers

Exists(fs, p) == p \in DOMAIN fs

WriteFile(fs, p, c) == [q \in DOMAIN fs \cup {p} |-> IF q = p THEN c ELSE fs[q]]

\* a removal that leaves the file in place
RemoveFile_Keep(fs, p) == fs

RemoveFile(fs, p) == [q \in DOMAIN fs \ {p} |-> fs[q]]

\* shutil.move(src, dst) of a regular file
MoveFile(fs, src, dst) == RemoveFile(WriteFile(fs, dst, fs[src]), src)

\* a digest taken of what the manifest lists under the file's name instead
\* of the bytes of the file
get_file_md5_OfManifest(fs, p) ==
    IF Exists(fs, p)
    THEN md5(Good(CHOOSE i \in 1..Len(Names) : Names[i] = p.name))
    ELSE -1

get_file_md5(fs, p) == IF Exists(fs, p) THEN md5(fs[p]) ELSE -1

\* ------------------------------------------------------------------------
\* ProgressInfo

Kinds == {"download", "verify", "update", "update_patch"}

ProgressInfo == [total_size |-> 0, finished_size |-> 0,
                 total_count |-> 0, finished_count |-> 0]

\* one counter shared by the operation kinds
update_progress_AllKinds(prog, flag, value) ==
    IF flag \in Kinds
    THEN [k \in Kinds |-> [prog[k] EXCEPT !.finished_size = @ + value]]
    ELSE prog

update_progress(prog, flag, value) ==
    IF flag \in Kinds
    THEN [prog EXCEPT ![flag].finished_size = @ + value]
    ELSE prog

\* ------------------------------------------------------------------------
\* The download server: what urlopen(req, timeout=10) can produce for one
\* request.  kind "fault" is a transport fault before any response (timeout,
\* reset, DNS failure), "http_error" an HTTPError raised by urlopen for a
\* non-2xx status, "response" a response object with rsp.status.  chunks is
\* the number of rsp.read calls that return data before the connection
\* breaks; a response is complete when every chunk of its body was read.

Min(a, b) == IF a < b THEN a ELSE b

NChunks(body) == (Len(body) + ChunkSize - 1) \div ChunkSize

NoRsp == [kind |-> "none", status |-> 0, body |-> <<>>, chunks |-> 0]

Bodies(i, offset) ==
    {SubSeq(B, offset + 1, Len(B)) : B \in {Good(i), Bad(i)}}

Responses(i, offset) ==
    {[kind |-> "fault", status |-> 0, body |-> <<>>, chunks |-> 0],
     [kind |-> "http_error", status |-> 404, body |-> <<>>, chunks |-> 0],
     [kind |-> "response", status |-> 204, body |-> <<>>, chunks |-> 0]}
    \cup {[kind |-> "http_error", status |-> 416, body |-> <<>>, chunks |-> 0] :
            x \in IF offset > 0 THEN {1} ELSE {}}
    \cup UNION {{[kind |-> "response", status |-> 200, body |-> B, chunks |-> c] :
                    c \in 0..NChunks(B)} : B \in Bodies(i, 0)}
    \cup UNION {{[kind |-> "response", status |-> 206, body |-> B, chunks |-> c] :
                    c \in 0..NChunks(B)} :
                 B \in IF offset > 0 /\ offset < ResSize(i)
                       THEN Bodies(i, offset) ELSE {}}

\* os.path.getsize(temp_file_path) if the temp file exists, else 0
ResumeOffset(fs, file_path) ==
    IF Exists(fs, TempOf(file_path)) THEN Len(fs[TempOf(file_path)]) ELSE 0

\* the except clause of download_file_with_resume reads e.code: only an
\* HTTPError carries that attribute
HasCode_Never(rsp) == FALSE

HasCode(rsp) == rsp.kind = "http_error"

\* ------------------------------------------------------------------------
\* download_file_with_resume: the disk, directories and progress after the
\* call, and ret: "True", "False", or "Raise" when an exception leaves it.

\* a skip that reports nothing
SkipProgress_None(prog, flag, file_size) == prog

\* lines 399-400: an existing file counts with its expected size, if given
SkipProgress(prog, flag, file_size) ==
    IF file_size > 0 THEN update_progress(prog, flag, file_size) ELSE prog

\* a skipped lines-427-429 reset: the resume offset is kept on a 200
WriteOffset_NoReset(status, downloaded_bytes) == downloaded_bytes

\* downloaded_bytes after the status branches, lines 421-429: kept on a 206,
\* reset to 0 on a 200
WriteOffset(status, downloaded_bytes) ==
    IF status = 206 THEN downloaded_bytes ELSE 0

\* the temp file always opened with "wb"
OpenTemp_Truncate(fs, temp_file_path, offset) == <<>>

\* open(temp_file_path, mode), lines 434-435: "ab" keeps the bytes of the temp
\* file, "wb" truncates it
OpenTemp(fs, temp_file_path, offset) ==
    IF offset > 0 THEN fs[temp_file_path] ELSE <<>>

download_file_with_resume(fs, ds, prog, file_path, overwrite, flag, file_size, rsp) ==
    LET ds1 == ds \cup {file_path.dir}
        temp_file_path == TempOf(file_path)
    IN
    IF Exists(fs, file_path) /\ ~overwrite
    THEN [files |-> fs, dirs |-> ds1,
          progress |-> SkipProgress(prog, flag, file_size),
          ret |-> "True", requested |-> FALSE, range |-> 0,
          reported |-> IF file_size > 0 THEN file_size ELSE 0]
    ELSE
    LET fs1 == IF Exists(fs, file_path) THEN RemoveFile(fs, file_path) ELSE fs
        downloaded_bytes == ResumeOffset(fs1, file_path)
        content_length == 0
        base == [files |-> fs1, dirs |-> ds1, progress |-> prog, ret |-> "False",
                 requested |-> TRUE, range |-> downloaded_bytes, reported |-> 0]
    IN
    IF rsp.kind = "response" /\ rsp.status \in {200, 206}
    THEN
        LET offset == WriteOffset(rsp.status, downloaded_bytes)
            old == OpenTemp(fs1, temp_file_path, offset)
            nread == Min(rsp.chunks * ChunkSize, Len(rsp.body))
            fs2 == WriteFile(fs1, temp_file_path, old \o SubSeq(rsp.body, 1, nread))
            prog2 == update_progress(prog, flag, nread)
        IN
        IF rsp.chunks = NChunks(rsp.body)
        THEN [base EXCEPT !.files = MoveFile(fs2, temp_file_path, file_path),
                          !.progress = prog2, !.ret = "True", !.reported = nread]
        ELSE [base EXCEPT !.files = fs2, !.progress = prog2, !.reported = nread,
                          !.ret = IF HasCode(rsp) THEN "False" ELSE "Raise"]
    ELSE IF rsp.kind = "response"
    THEN base
    ELSE IF ~HasCode(rsp)
    THEN [base EXCEPT !.ret = "Raise"]
    ELSE IF rsp.status = 416 /\ downloaded_bytes = content_length
                             /\ Exists(fs1, temp_file_path)
    THEN [base EXCEPT !.files = MoveFile(fs1, temp_file_path, file_path)]
    ELSE base

\* what the step records about the call it made
NoFetch == [called |-> FALSE, res |-> 0, overwrite |-> FALSE, flag |-> None,
            requested |-> FALSE, range |-> 0, rsp |-> NoRsp, ret |-> "True",
            reported |-> 0, preTemp |-> <<>>, preDest |-> FALSE, preFinished |-> 0]

Fetch(i, fs, prog, overwrite, flag, rsp, r) ==
    [called |-> TRUE, res |-> i, overwrite |-> overwrite, flag |-> flag,
     requested |-> r.requested, range |-> r.range, rsp |-> rsp, ret |-> r.ret,
     reported |-> r.reported,
     preTemp |-> IF Exists(fs, TempOf(Dest(i))) THEN fs[TempOf(Dest(i))] ELSE <<>>,
     preDest |-> Exists(fs, Dest(i)),
     preFinished |-> IF flag \in Kinds THEN prog[flag].finished_size ELSE 0]

\* the responses the call can meet: none when it returns before any request
RspFor(i, fs, overwrite) ==
    IF Exists(fs, Dest(i)) /\ ~overwrite THEN {NoRsp}
    ELSE Responses(i, ResumeOffset(fs, Dest(i)))

\* ------------------------------------------------------------------------
\* Launcher.__init__ and the routines it calls

\* a scan that returns after looking at one resource
ScanResources_FirstOnly(fs, k) ==
    IF ~Exists(fs, resource_list[k].dest) THEN "NEEDINSTALL" ELSE "STARTGAME"

\* the scan of init_launcher_state over the resource list, with its early return
RECURSIVE ScanResources(_, _)
ScanResources(fs, k) ==
    IF k > NumRes THEN "STARTGAME"
    ELSE IF ~Exists(fs, resource_list[k].dest) THEN "NEEDINSTALL"
    ELSE ScanResources(fs, k + 1)

\* the state init_launcher_state leaves, "TypeError" when it subscripts a
\* resource index that is None
init_launcher_state(lv, index, fs) ==
    IF lv = None
    THEN IF index = None THEN "TypeError" ELSE ScanResources(fs, 1)
    ELSE IF current_version # lv THEN "NEEDUPDATE" ELSE "STARTGAME"

\* patchConfig lists of the manifest: entries with a version and the length of ext
PatchConfigs ==
    {<<>>,
     <<[version |-> "v1", ext |-> 0]>>,
     <<[version |-> "v1", ext |-> 1]>>}

\* entries of a patch index: carried-over files have fromFolder, the diff
\* package has none
PatchResources ==
    <<[dest |-> Dest(1), fromFolder |-> TRUE],
      [dest |-> [dir |-> <<>>, name |-> "patch.krdiff", temp |-> FALSE],
       fromFolder |-> FALSE]>>

\* what get_result returns for the patch index: None, or a document with a
\* resource list
NoPatchIndex == [ok |-> FALSE, resource |-> <<>>]

PatchIndexes == {NoPatchIndex,
                 [ok |-> TRUE, resource |-> <<>>],
                 [ok |-> TRUE, resource |-> PatchResources]}

\* an eligibility test that does not look at ext
init_incremental_update_AnyExt(lv, patch_configs, fetched) ==
    LET target_patch == SelectSeq(patch_configs, LAMBDA x : x.version = lv)
    IN  IF lv = None \/ Len(target_patch) = 0 THEN <<FALSE, NoPatchIndex>>
        ELSE <<TRUE, fetched>>

\* init_incremental_update: <<support_incremental_patching, gamefile_index_patch>>
init_incremental_update(lv, patch_configs, fetched) ==
    LET target_patch == SelectSeq(patch_configs, LAMBDA x : x.version = lv)
    IN  IF lv = None \/ lv = "" THEN <<FALSE, NoPatchIndex>>
        ELSE IF Len(target_patch) = 0 THEN <<FALSE, NoPatchIndex>>
        ELSE IF target_patch[1].ext = 0 THEN <<FALSE, NoPatchIndex>>
        ELSE <<TRUE, fetched>>

\* ------------------------------------------------------------------------
\* Directory trees.  A file is named by its path record, a directory by the
\* sequence of its names; merge_patch removes and moves whole entries.

IsPrefix(d, e) == Len(d) <= Len(e) /\ SubSeq(e, 1, Len(d)) = d

\* the path of a file as a sequence of names
PathSeq(p) == Append(p.dir, p.name)

\* the files and the directories at or below the top-level entry item
FilesUnder(fs, item) == {p \in DOMAIN fs : IsPrefix(<<item>>, PathSeq(p))}

DirsUnder(ds, item) == {d \in ds : IsPrefix(<<item>>, d)}

Restrict(fs, S) == [p \in S |-> fs[p]]

\* what rglob('*') hands to the loop of merge_patch: the listing of
\* temp_folder itself, taken before the first entry is moved; by the time the
\* directories below are looked at they have been moved away
TopLevel(fs, ds) == {PathSeq(p)[1] : p \in DOMAIN fs} \cup {d[1] : d \in ds}

\* a destination that is left in place
RemoveDestination_Keep(fs, ds, item) == [files |-> fs, dirs |-> ds]

\* lines 263-267: destination.unlink() for a file, shutil.rmtree(destination)
\* for a directory, nothing when there is no destination
RemoveDestination(fs, ds, item) ==
    LET destination == [dir |-> <<>>, name |-> item, temp |-> FALSE]
    IN  IF Exists(fs, destination)
        THEN [files |-> RemoveFile(fs, destination), dirs |-> ds]
        ELSE IF <<item>> \in ds
        THEN [files |-> Restrict(fs, DOMAIN fs \ FilesUnder(fs, item)),
              dirs |-> ds \ DirsUnder(ds, item)]
        ELSE [files |-> fs, dirs |-> ds]

\* shutil.move(item, destination), line 269: the entry, with all it
\* contains, is now under the game folder
MoveEntry(live, tfs, tds, item) ==
    [files |-> [p \in DOMAIN live.files \cup FilesUnder(tfs, item) |->
                   IF p \in FilesUnder(tfs, item) THEN tfs[p] ELSE live.files[p]],
     dirs |-> live.dirs \cup DirsUnder(tds, item)]

\* ------------------------------------------------------------------------
\* run_hpatchz and download_patch_tool

\* Path(base_dir) / "tools" / "hpatchz"
ToolPath == [dir |-> <<"tools">>, name |-> "hpatchz", temp |-> FALSE]

ToolBody == <<8>>

\* what the request for the tool can meet
ToolResponses ==
    {[kind |-> "fault", status |-> 0, body |-> <<>>, chunks |-> 0],
     [kind |-> "http_error", status |-> 404, body |-> <<>>, chunks |-> 0]}
    \cup {[kind |-> "response", status |-> 200, body |-> ToolBody, chunks |-> c] :
            c \in 0..NChunks(ToolBody)}

\* the diff package self.krdiff_file_path names, under base_dir
KrdiffFile(name) == [dir |-> <<>>, name |-> name, temp |-> FALSE]

\* download_patch_tool: the files under base_dir afterwards and the result,
\* "Raise" when the downloader's exception leaves it
download_patch_tool(bfs, prog, rsp) ==
    LET r == download_file_with_resume(bfs, {}, prog, ToolPath, FALSE, None, 0, rsp)
    IN  [files |-> r.files, ret |-> r.ret]

\* os.system(cmd), line 479: exit status of the shell that starts
\* tools/hpatchz; without the tool file, or without the diff package for it
\* to read, the command cannot succeed
ExitStatuses(bfs, krdiff) ==
    IF Exists(bfs, ToolPath) /\ Exists(bfs, KrdiffFile(krdiff))
    THEN {0, 1} ELSE {127}

PatchedFile == [dir |-> <<>>, name |-> "patched.pak", temp |-> FALSE]

\* the tool writes the patched output into the output directory, temp_folder
hpatchz_output(tfs, exit) ==
    IF exit = 0 THEN WriteFile(tfs, PatchedFile, <<3>>) ELSE tfs

\* run_hpatchz has not been called
NoRun == [called |-> FALSE, tool |-> "True", exit |-> 0]

\* ------------------------------------------------------------------------
\* select_cdn

\* Number of nodes a served cdnList holds at most.
MaxNodes == 3

Urls == <<"cdn1", "cdn2", "cdn3", "cdn4", "cdn5">>

\* the node at position k of a list: its url, priority P and flags K1, K2
CdnNodes(k) ==
    [url : {Urls[k]}, P : {1, 5, 9}, K1 : {0, 1}, K2 : {0, 1}]

\* the lists the manifest can carry; an absent, null or empty list is <<>>
CdnLists ==
    UNION {{l \in [1..n -> UNION {CdnNodes(k) : k \in 1..n}] :
                \A k \in 1..n : l[k] \in CdnNodes(k)} : n \in 0..MaxNodes}

\* the list served to the runs of the entry point
ServedCdnList == <<[url |-> "cdn1", P |-> 1, K1 |-> 1, K2 |-> 1]>>

\* a filter that lets every node through
Eligible_Any(node) == TRUE

\* node['K1'] == 1 and node['K2'] == 1
Eligible(node) == node.K1 = 1 /\ node.K2 = 1

select_cdn(list) ==
    LET available_nodes == SelectSeq(list, Eligible)
    IN  IF list = <<>> THEN None
        ELSE IF available_nodes = <<>> THEN None
        ELSE LET max_priority ==
                     CHOOSE m \in {available_nodes[i].P : i \in 1..Len(available_nodes)} :
                         \A i \in 1..Len(available_nodes) : available_nodes[i].P <= m
                 first == CHOOSE i \in 1..Len(available_nodes) :
                              /\ available_nodes[i].P = max_priority
                              /\ \A j \in 1..(i - 1) :
                                    available_nodes[j].P # max_priority
             IN  available_nodes[first].url

\* get_localVersion: the marker file's version, None without a marker file
get_localVersion(m) == m

Modes == {"install", "update", "patch-update"}

DirsOf(fs) == {p.dir : p \in DOMAIN fs}

\* the disks a run can start from: each resource file absent, intact or
\* corrupt, a partial temp file of some length beside it, stale pak or not
DiskChoices ==
    {ch \in [dest : [1..NumRes -> {"absent", "good", "bad"}],
             temp : [1..NumRes -> 0..2],
             stale : BOOLEAN] :
        \A i \in 1..NumRes : ch.temp[i] <= ResSize(i)}

ResOf(p) == CHOOSE i \in 1..NumRes : Dest(i).name = p.name

DiskOf(ch) ==
    LET dom == {Dest(i) : i \in {j \in 1..NumRes : ch.dest[j] # "absent"}}
               \cup {TempOf(Dest(i)) : i \in {j \in 1..NumRes : ch.temp[j] > 0}}
               \cup (IF ch.stale THEN {StalePak} ELSE {})
    IN  [p \in dom |->
            IF p = StalePak THEN <<9>>
            ELSE IF p.temp THEN SubSeq(Good(ResOf(p)), 1, ch.temp[ResOf(p)])
            ELSE IF ch.dest[ResOf(p)] = "good" THEN Good(ResOf(p))
            ELSE Bad(ResOf(p))]

Init ==
    /\ pc = "init"
    /\ crashedIn = "none"
    /\ idx = 0
    /\ mode \in Modes
    /\ state = "unset"
    /\ launcher_info = "unset"
    /\ gamefile_index = "unset"
    /\ local_version = "unset"
    /\ marker \in {None} \cup Versions
    /\ markerWrites = 0
    /\ files \in {DiskOf(ch) : ch \in DiskChoices}
    /\ \E paks \in SUBSET {PaksDir} : dirs = DirsOf(files) \cup paks
    /\ progress = [k \in Kinds |-> ProgressInfo]
    /\ support_incremental_patching = FALSE
    /\ gamefile_index_patch = NoPatchIndex
    /\ krdiff_file_path = None
    /\ temp_folder = FALSE
    /\ lastFetch = NoFetch
    /\ temp_files = <<>>
    /\ temp_dirs = {}
    /\ merge_items = {}
    /\ base_files = <<>>
    /\ hpatchz = NoRun
    /\ cdnlist = ServedCdnList
    /\ cdn_node = "unset"
    /\ patchConfig \in PatchConfigs

\* Launcher(game_folder=args.folder), line 668
LauncherInit ==
    /\ pc = "init"
    /\ \E info \in {None, "ok"}, index \in {None, "ok"},
          fetched \in PatchIndexes :
        IF info = None
        THEN /\ launcher_info' = None
             /\ state' = "NETWORKERROR"
             /\ UNCHANGED cdn_node
             /\ pc' = "verify1"
             /\ UNCHANGED <<crashedIn, gamefile_index, local_version,
                            support_incremental_patching, gamefile_index_patch>>
        ELSE LET lv == get_localVersion(marker)
                 st == init_launcher_state(lv, index, files)
                 inc == init_incremental_update(lv, patchConfig, fetched)
             IN  /\ launcher_info' = "ok"
                 /\ cdn_node' = select_cdn(cdnlist)
                 /\ gamefile_index' = index
                 /\ local_version' = lv
                 /\ IF st = "TypeError"
                    THEN /\ state' = "STARTGAME"
                         /\ pc' = "crashed"
                         /\ crashedIn' = "__init__"
                         /\ UNCHANGED <<support_incremental_patching,
                                        gamefile_index_patch>>
                    ELSE /\ state' = st
                         /\ pc' = "verify1"
                         /\ support_incremental_patching' = inc[1]
                         /\ gamefile_index_patch' = inc[2]
                         /\ UNCHANGED crashedIn
    /\ UNCHANGED <<cdnlist, patchConfig>>
    /\ UNCHANGED mergeVars
    /\ UNCHANGED <<idx, mode, marker, markerWrites, files, dirs, progress,
                   krdiff_file_path, temp_folder, lastFetch>>

\* ------------------------------------------------------------------------
\* update_localVersion: the version it writes into the marker file

update_localVersion(m) == current_version

\* ------------------------------------------------------------------------
\* verify_gamefile, called at line 669 ("verify1") and again at lines 673 and
\* 679 ("verify2")

VerifyPcs == {"verify1", "verify2"}

AfterVerify(p, md) ==
    IF p = "verify2" THEN "update_localVersion"
    ELSE IF md = "install" THEN "download_game"
    ELSE IF md = "update" THEN "update_game"
    ELSE "download_patch"

\* resource['dest'].startswith('Client/Content/Paks/')
StartsWithPaks(dest) ==
    Len(dest.dir) >= Len(PaksDir) /\ SubSeq(dest.dir, 1, Len(PaksDir)) = PaksDir

\* the names collected by the first loop: resource['dest'].split('/')[-1]
chunk_paks ==
    {resource_list[i].dest.name :
        i \in {j \in 1..NumRes : StartsWithPaks(resource_list[j].dest)}}

\* a prune that removes nothing
Prune_Nothing(fs) == fs

\* os.listdir of the packed-resource directory; a temp file is listed under
\* its own name, name + ".temp", which no dest carries
Prune(fs) ==
    LET local_chunk_paks == {p \in DOMAIN fs : p.dir = PaksDir}
        removed == {p \in local_chunk_paks : p.temp \/ p.name \notin chunk_paks}
    IN  [q \in DOMAIN fs \ removed |-> fs[q]]

VerifyBegin ==
    /\ pc \in VerifyPcs
    /\ idx = 0
    /\ state' = "VALIDATING"
    /\ lastFetch' = NoFetch
    /\ IF launcher_info = None \/ gamefile_index = None
       THEN \* self.gamefile_index is missing (AttributeError) or None (TypeError)
            /\ pc' = "crashed"
            /\ crashedIn' = "verify_gamefile"
            /\ UNCHANGED <<idx, files, progress>>
       ELSE /\ progress' = [progress EXCEPT
                                !["verify"].total_size = @ + SumSizes(NumRes)]
            /\ IF PaksDir \notin dirs
               THEN \* os.listdir raises FileNotFoundError
                    /\ pc' = "crashed"
                    /\ crashedIn' = "verify_gamefile"
                    /\ UNCHANGED <<idx, files>>
               ELSE /\ files' = Prune(files)
                    /\ idx' = 1
                    /\ UNCHANGED <<pc, crashedIn>>
    /\ UNCHANGED <<cdnVars, patchConfig>>
    /\ UNCHANGED mergeVars
    /\ UNCHANGED <<mode, launcher_info, gamefile_index, local_version, marker,
                   markerWrites, dirs, support_incremental_patching,
                   gamefile_index_patch, krdiff_file_path, temp_folder>>

VerifyFile ==
    /\ pc \in VerifyPcs
    /\ idx \in 1..NumRes
    /\ LET file == resource_list[idx]
           current_md5 == get_file_md5(files, file.dest)
       IN  IF current_md5 = file.md5
           THEN /\ progress' = update_progress(progress, "verify", file.size)
                /\ idx' = idx + 1
                /\ lastFetch' = NoFetch
                /\ UNCHANGED <<pc, crashedIn, files, dirs>>
           ELSE \E rsp \in RspFor(idx, files, TRUE) :
                LET r == download_file_with_resume(files, dirs, progress, file.dest,
                                                   TRUE, None, 0, rsp)
                IN  /\ files' = r.files
                    /\ dirs' = r.dirs
                    /\ lastFetch' = Fetch(idx, files, progress, TRUE, None, rsp, r)
                    /\ IF r.ret = "Raise"
                       THEN /\ pc' = "crashed"
                            /\ crashedIn' = "verify_gamefile"
                            /\ progress' = r.progress
                            /\ UNCHANGED idx
                       ELSE /\ progress' = update_progress(r.progress, "verify",
                                                           file.size)
                            /\ idx' = idx + 1
                            /\ UNCHANGED <<pc, crashedIn>>
    /\ UNCHANGED <<cdnVars, patchConfig>>
    /\ UNCHANGED mergeVars
    /\ UNCHANGED <<mode, state, launcher_info, gamefile_index, local_version,
                   marker, markerWrites, support_incremental_patching,
                   gamefile_index_patch, krdiff_file_path, temp_folder>>

\* the last statement of verify_gamefile, line 318
VerifyEnd ==
    /\ pc \in VerifyPcs
    /\ idx = NumRes + 1
    /\ marker' = update_localVersion(marker)
    /\ markerWrites' = markerWrites + 1
    /\ pc' = AfterVerify(pc, mode)
    /\ idx' = 0
    /\ lastFetch' = NoFetch
    /\ UNCHANGED <<cdnVars, patchConfig>>
    /\ UNCHANGED mergeVars
    /\ UNCHANGED <<crashedIn, mode, state, launcher_info, gamefile_index,
                   local_version, files, dirs, progress,
                   support_incremental_patching, gamefile_index_patch,
                   krdiff_file_path, temp_folder>>

\* ------------------------------------------------------------------------
\* download_game, line 672

\* download_game persisting the manifest version as it begins
DownloadGameBegin_WritesMarker ==
    /\ pc = "download_game"
    /\ idx = 0
    /\ state' = "DOWNLOADING"
    /\ progress' = [progress EXCEPT
                        !["download"].total_count = NumRes,
                        !["download"].total_size = @ + SumSizes(NumRes)]
    /\ idx' = 1
    /\ lastFetch' = NoFetch
    /\ marker' = update_localVersion(marker)
    /\ markerWrites' = markerWrites + 1
    /\ UNCHANGED <<cdnVars, patchConfig>>
    /\ UNCHANGED mergeVars
    /\ UNCHANGED <<pc, crashedIn, mode, launcher_info, gamefile_index,
                   local_version, files, dirs,
                   support_incremental_patching, gamefile_index_patch,
                   krdiff_file_path, temp_folder>>

DownloadGameBegin ==
    /\ pc = "download_game"
    /\ idx = 0
    /\ state' = "DOWNLOADING"
    /\ progress' = [progress EXCEPT
                        !["download"].total_count = NumRes,
                        !["download"].total_size = @ + SumSizes(NumRes)]
    /\ idx' = 1
    /\ lastFetch' = NoFetch
    /\ UNCHANGED <<cdnVars, patchConfig>>
    /\ UNCHANGED mergeVars
    /\ UNCHANGED <<pc, crashedIn, mode, launcher_info, gamefile_index,
                   local_version, marker, markerWrites, files, dirs,
                   support_incremental_patching, gamefile_index_patch,
                   krdiff_file_path, temp_folder>>

DownloadGameFile ==
    /\ pc = "download_game"
    /\ idx \in 1..NumRes
    /\ LET file == resource_list[idx]
       IN  \E rsp \in RspFor(idx, files, FALSE) :
           LET r == download_file_with_resume(files, dirs, progress, file.dest,
                                              FALSE, "download", file.size, rsp)
           IN  /\ files' = r.files
               /\ dirs' = r.dirs
               /\ lastFetch' = Fetch(idx, files, progress, FALSE, "download", rsp, r)
               /\ IF r.ret = "Raise"
                  THEN /\ pc' = "crashed"
                       /\ crashedIn' = "download_game"
                       /\ progress' = r.progress
                       /\ UNCHANGED idx
                  ELSE /\ progress' = [r.progress EXCEPT
                                          !["download"].finished_count = @ + 1]
                       /\ pc' = IF idx = NumRes THEN "verify2" ELSE pc
                       /\ idx' = IF idx = NumRes THEN 0 ELSE idx + 1
                       /\ UNCHANGED crashedIn
    /\ UNCHANGED <<cdnVars, patchConfig>>
    /\ UNCHANGED mergeVars
    /\ UNCHANGED <<mode, state, launcher_info, gamefile_index, local_version,
                   marker, markerWrites, support_incremental_patching,
                   gamefile_index_patch, krdiff_file_path, temp_folder>>

\* ------------------------------------------------------------------------
\* update_game, line 678

UpdateGameBegin ==
    /\ pc = "update_game"
    /\ idx = 0
    /\ state' = "UPDATING"
    /\ progress' = [progress EXCEPT
                        !["update"].total_count = NumRes,
                        !["update"].total_size = @ + SumSizes(NumRes)]
    /\ idx' = 1
    /\ lastFetch' = NoFetch
    /\ UNCHANGED <<cdnVars, patchConfig>>
    /\ UNCHANGED mergeVars
    /\ UNCHANGED <<pc, crashedIn, mode, launcher_info, gamefile_index,
                   local_version, marker, markerWrites, files, dirs,
                   support_incremental_patching, gamefile_index_patch,
                   krdiff_file_path, temp_folder>>

UpdateGameFile ==
    /\ pc = "update_game"
    /\ idx \in 1..NumRes
    /\ LET file == resource_list[idx]
           current_md5 == get_file_md5(files, file.dest)
           nextPc == IF idx = NumRes THEN "verify2" ELSE pc
           nextIdx == IF idx = NumRes THEN 0 ELSE idx + 1
       IN  IF current_md5 = file.md5
           THEN /\ progress' = [update_progress(progress, "update", file.size)
                                   EXCEPT !["update"].finished_count = @ + 1]
                /\ pc' = nextPc
                /\ idx' = nextIdx
                /\ lastFetch' = NoFetch
                /\ UNCHANGED <<crashedIn, files, dirs>>
           ELSE \E rsp \in RspFor(idx, files, TRUE) :
                LET r == download_file_with_resume(files, dirs, progress, file.dest,
                                                   TRUE, "update", 0, rsp)
                IN  /\ files' = r.files
                    /\ dirs' = r.dirs
                    /\ lastFetch' = Fetch(idx, files, progress, TRUE, "update", rsp, r)
                    /\ IF r.ret = "Raise"
                       THEN /\ pc' = "crashed"
                            /\ crashedIn' = "update_game"
                            /\ progress' = r.progress
                            /\ UNCHANGED idx
                       ELSE /\ progress' = [r.progress EXCEPT
                                               !["update"].finished_count = @ + 1]
                            /\ pc' = nextPc
                            /\ idx' = nextIdx
                            /\ UNCHANGED crashedIn
    /\ UNCHANGED <<cdnVars, patchConfig>>
    /\ UNCHANGED mergeVars
    /\ UNCHANGED <<mode, state, launcher_info, gamefile_index, local_version,
                   marker, markerWrites, support_incremental_patching,
                   gamefile_index_patch, krdiff_file_path, temp_folder>>

\* ------------------------------------------------------------------------
\* launcher.update_localVersion() of the entry point, lines 674 and 680

MainUpdateLocalVersion ==
    /\ pc = "update_localVersion"
    /\ marker' = update_localVersion(marker)
    /\ markerWrites' = markerWrites + 1
    /\ pc' = "done"
    /\ lastFetch' = NoFetch
    /\ UNCHANGED <<cdnVars, patchConfig>>
    /\ UNCHANGED mergeVars
    /\ UNCHANGED <<crashedIn, idx, mode, state, launcher_info, gamefile_index,
                   local_version, files, dirs, progress,
                   support_incremental_patching, gamefile_index_patch,
                   krdiff_file_path, temp_folder>>

\* ------------------------------------------------------------------------
\* download_patch, line 684.  None has no ['resource'] (TypeError); with a
\* resource to iterate, the first statement of the loop body subscripts
\* self.game_folder_path, a Path (TypeError), before any download.

DownloadPatch ==
    /\ pc = "download_patch"
    /\ temp_folder' = TRUE
    /\ IF gamefile_index_patch.ok /\ Len(gamefile_index_patch.resource) = 0
       THEN /\ pc' = "merge_patch"
            /\ UNCHANGED crashedIn
       ELSE /\ pc' = "crashed"
            /\ crashedIn' = "download_patch"
    /\ lastFetch' = NoFetch
    /\ UNCHANGED <<cdnVars, patchConfig>>
    /\ UNCHANGED mergeVars
    /\ UNCHANGED <<idx, mode, state, launcher_info, gamefile_index,
                   local_version, marker, markerWrites, files, dirs, progress,
                   support_incremental_patching, gamefile_index_patch,
                   krdiff_file_path>>

\* merge_patch, line 685: self.krdiff_file_path is assigned only at line 100
\* (download_patch sets a local of the same name), so the body is skipped.
MergePatch ==
    /\ pc = "merge_patch"
    /\ krdiff_file_path = None
    /\ pc' = "done"
    /\ lastFetch' = NoFetch
    /\ UNCHANGED <<cdnVars, patchConfig>>
    /\ UNCHANGED mergeVars
    /\ UNCHANGED <<crashedIn, idx, mode, state, launcher_info, gamefile_index,
                   local_version, marker, markerWrites, files, dirs, progress,
                   support_incremental_patching, gamefile_index_patch,
                   krdiff_file_path, temp_folder>>

\* ------------------------------------------------------------------------

Next ==
    \/ LauncherInit
    \/ VerifyBegin
    \/ VerifyFile
    \/ VerifyEnd
    \/ DownloadGameBegin
    \/ DownloadGameFile
    \/ UpdateGameBegin
    \/ UpdateGameFile
    \/ MainUpdateLocalVersion
    \/ DownloadPatch
    \/ MergePatch

Spec == Init /\ [][Next]_vars

\* ------------------------------------------------------------------------
\* merge_patch as a method: a launcher whose krdiff_file_path attribute holds
\* the staged diff package, with the staged files in temp_folder.

\* line 257: the tool is fetched, its result dropped, and the command is
\* run, its exit status dropped; the loop then starts on the listing
RunHpatchz ==
    /\ pc = "merge_patch"
    /\ krdiff_file_path # None
    /\ \E rsp \in IF Exists(base_files, ToolPath) THEN {NoRsp} ELSE ToolResponses :
         LET t == download_patch_tool(base_files, progress, rsp)
         IN  /\ base_files' = t.files
             /\ IF t.ret = "Raise"
                THEN /\ pc' = "crashed"
                     /\ crashedIn' = "merge_patch"
                     /\ UNCHANGED <<temp_files, merge_items, hpatchz>>
                ELSE \E exit \in ExitStatuses(t.files, krdiff_file_path) :
                     /\ pc' = "merge_loop"
                     /\ temp_files' = hpatchz_output(temp_files, exit)
                     /\ merge_items' = TopLevel(temp_files', temp_dirs)
                     /\ hpatchz' = [called |-> TRUE, tool |-> t.ret, exit |-> exit]
                     /\ UNCHANGED crashedIn
    /\ lastFetch' = NoFetch
    /\ UNCHANGED <<cdnVars, patchConfig>>
    /\ UNCHANGED <<idx, mode, state, launcher_info, gamefile_index,
                   local_version, marker, markerWrites, files, dirs, progress,
                   support_incremental_patching, gamefile_index_patch,
                   krdiff_file_path, temp_folder, temp_dirs>>

\* one iteration of the loop, lines 259-269
MergeItem ==
    /\ pc = "merge_loop"
    /\ \E item \in merge_items :
         LET removed == RemoveDestination(files, dirs, item)
             moved == MoveEntry(removed, temp_files, temp_dirs, item)
         IN  /\ files' = moved.files
             /\ dirs' = moved.dirs
             /\ temp_files' = Restrict(temp_files,
                                  DOMAIN temp_files \ FilesUnder(temp_files, item))
             /\ temp_dirs' = temp_dirs \ DirsUnder(temp_dirs, item)
             /\ merge_items' = merge_items \ {item}
    /\ lastFetch' = NoFetch
    /\ UNCHANGED <<cdnVars, patchConfig>>
    /\ UNCHANGED <<pc, crashedIn, idx, mode, state, launcher_info,
                   gamefile_index, local_version, marker, markerWrites,
                   progress, support_incremental_patching,
                   gamefile_index_patch, krdiff_file_path, temp_folder,
                   base_files, hpatchz>>

\* lines 271-272: shutil.rmtree(temp_folder), then krdiff_file_path.unlink(),
\* FileNotFoundError when the diff package is not there
MergeEnd ==
    /\ pc = "merge_loop"
    /\ merge_items = {}
    /\ temp_folder' = FALSE
    /\ temp_files' = <<>>
    /\ temp_dirs' = {}
    /\ IF Exists(base_files, KrdiffFile(krdiff_file_path))
       THEN /\ base_files' = RemoveFile(base_files, KrdiffFile(krdiff_file_path))
            /\ pc' = "done"
            /\ UNCHANGED crashedIn
       ELSE /\ pc' = "crashed"
            /\ crashedIn' = "merge_patch"
            /\ UNCHANGED base_files
    /\ lastFetch' = NoFetch
    /\ UNCHANGED <<cdnVars, patchConfig>>
    /\ UNCHANGED <<idx, mode, state, launcher_info, gamefile_index,
                   local_version, marker, markerWrites, files, dirs, progress,
                   support_incremental_patching, gamefile_index_patch,
                   krdiff_file_path, merge_items, hpatchz>>

MergeFile(d, n) == [dir |-> d, name |-> n, temp |-> FALSE]

\* every directory a file or a directory lies in exists, and no path is both
\* a file and a directory
WellFormed(fs, ds) ==
    /\ \A p \in DOMAIN fs : p.dir = <<>> \/ p.dir \in ds
    /\ \A p \in DOMAIN fs : PathSeq(p) \notin ds
    /\ \A d \in ds : Len(d) > 1 => SubSeq(d, 1, Len(d) - 1) \in ds

Trees(F, D, content) ==
    {t \in {[files |-> [p \in S |-> content], dirs |-> ds] :
                S \in SUBSET F, ds \in SUBSET D} :
        WellFormed(t.files, t.dirs)}

\* game folders the merge can meet, files of the installed release in them
LiveTrees ==
    Trees({MergeFile(<<>>, "a"), MergeFile(<<"a">>, "keep.dll"),
           MergeFile(<<"a">>, "b.txt"), MergeFile(<<"a", "b.txt">>, "old.bin"),
           MergeFile(<<>>, "other.pak")},
          {<<"a">>, <<"a", "b.txt">>}, <<1>>)

\* staged trees, files of the new release in them
ScratchTrees ==
    Trees({MergeFile(<<>>, "a"), MergeFile(<<"a">>, "b.txt"),
           MergeFile(<<>>, "new.pak")},
          {<<"a">>}, <<2>>)

InitMerge ==
    /\ pc = "merge_patch"
    /\ crashedIn = "none"
    /\ idx = 0
    /\ mode = "patch-update"
    /\ state = "VALIDATING"
    /\ launcher_info = "ok"
    /\ gamefile_index = "ok"
    /\ local_version = "v1"
    /\ marker = "v1"
    /\ markerWrites = 0
    /\ \E t \in LiveTrees : files = t.files /\ dirs = t.dirs
    /\ progress = [k \in Kinds |-> ProgressInfo]
    /\ support_incremental_patching = TRUE
    /\ gamefile_index_patch = [ok |-> TRUE, resource |-> PatchResources]
    /\ krdiff_file_path \in {None, "patch.krdiff"}
    /\ temp_folder = TRUE
    /\ lastFetch = NoFetch
    /\ \E t \in ScratchTrees : temp_files = t.files /\ temp_dirs = t.dirs
    /\ merge_items = {}
    /\ base_files \in {Restrict([p \in {ToolPath, KrdiffFile("patch.krdiff")} |->
                                    IF p = ToolPath THEN ToolBody ELSE <<4>>], S) :
                          S \in SUBSET {ToolPath, KrdiffFile("patch.krdiff")}}
    /\ hpatchz = NoRun
    /\ cdnlist = ServedCdnList
    /\ cdn_node = select_cdn(cdnlist)
    /\ patchConfig = <<[version |-> "v1", ext |-> 1]>>

NextMerge ==
    \/ MergePatch
    \/ RunHpatchz
    \/ MergeItem
    \/ MergeEnd

SpecMerge == InitMerge /\ [][NextMerge]_vars

\* ------------------------------------------------------------------------
\* The construction of a launcher for every cdnList the manifest can carry

InitCdn ==
    /\ pc = "init"
    /\ crashedIn = "none"
    /\ idx = 0
    /\ mode = "install"
    /\ state = "unset"
    /\ launcher_info = "unset"
    /\ gamefile_index = "unset"
    /\ local_version = "unset"
    /\ marker = None
    /\ markerWrites = 0
    /\ files = <<>>
    /\ dirs = {}
    /\ progress = [k \in Kinds |-> ProgressInfo]
    /\ support_incremental_patching = FALSE
    /\ gamefile_index_patch = NoPatchIndex
    /\ krdiff_file_path = None
    /\ temp_folder = FALSE
    /\ lastFetch = NoFetch
    /\ temp_files = <<>>
    /\ temp_dirs = {}
    /\ merge_items = {}
    /\ base_files = <<>>
    /\ hpatchz = NoRun
    /\ cdnlist \in CdnLists
    /\ cdn_node = "unset"
    /\ patchConfig = <<>>

NextCdn == LauncherInit

SpecCdn == InitCdn /\ [][NextCdn]_vars

\* ========================================================================
\* Properties

\* the state right after construction, before the first routine begins
Constructed == pc = "verify1" /\ idx = 0 /\ launcher_info = "ok"

\* the pass at pc has set its totals and has not processed a resource yet
PassStarts ==
    pc \in VerifyPcs \cup {"download_game", "update_game"} /\ idx = 1

KindOf(p) ==
    IF p \in VerifyPcs THEN "verify"
    ELSE IF p = "download_game" THEN "download" ELSE "update"

\* a fault of the transport: before the response, or while the body is read
TransportFault(rsp) ==
    \/ rsp.kind = "fault"
    \/ rsp.kind = "response" /\ rsp.status \in {200, 206}
                             /\ rsp.chunks < NChunks(rsp.body)

\* the last step made a ranged request and the server answered with `status`
RangedAnswer(status) ==
    /\ lastFetch.called
    /\ lastFetch.requested
    /\ Len(lastFetch.preTemp) > 0
    /\ lastFetch.rsp.kind = IF status = 416 THEN "http_error" ELSE "response"
    /\ lastFetch.rsp.status = status

\* C1: after a successful manifest fetch the state left by
\* init_launcher_state is determined by the marker and the resource files:
\* without a marker NEEDINSTALL if some dest file is absent and STARTGAME if
\* all are present; with a marker NEEDUPDATE if its version differs from the
\* manifest's and STARTGAME if it is equal.
C1_StateDerivation ==
    Constructed =>
        state = IF marker = None
                THEN IF \E i \in 1..NumRes : ~Exists(files, Dest(i))
                     THEN "NEEDINSTALL" ELSE "STARTGAME"
                ELSE IF marker # current_version
                     THEN "NEEDUPDATE" ELSE "STARTGAME"

\* no marker, the first resource present and a later one absent
C1_Witness ==
    /\ Constructed
    /\ marker = None
    /\ Exists(files, Dest(1))
    /\ \E i \in 2..NumRes : ~Exists(files, Dest(i))
    /\ state = "NEEDINSTALL"

\* C2: when the manifest fetch failed the state is NETWORKERROR and stays so
\* for the rest of the run.
C2_NetworkErrorTerminal ==
    launcher_info = None => state = "NETWORKERROR"

\* C3: a transport fault during download_file_with_resume makes the call
\* return False, and the pass that made the call goes on.
C3_TransportFaultReturnsFalse ==
    (lastFetch.called /\ TransportFault(lastFetch.rsp)) =>
        (lastFetch.ret = "False" /\ pc # "crashed")

\* C4: a verify pass that has entered its resource loop is never ended by an
\* exception: it handles every resource and reaches its end.
C4_VerifyPassNeverHalts ==
    ~(pc = "crashed" /\ crashedIn = "verify_gamefile" /\ idx >= 1)

\* C5: a temp file of N > 0 bytes and a 206 answer: the request carried
\* Range: bytes=N-, and when the call succeeds the destination holds the N
\* old bytes followed by the received ones, its size is N plus the content
\* length, and the temp file is gone.
C5_ResumeAppends ==
    (RangedAnswer(206) /\ lastFetch.ret = "True") =>
        LET d == Dest(lastFetch.res)
            N == Len(lastFetch.preTemp)
        IN  /\ lastFetch.range = N
            /\ Exists(files, d)
            /\ files[d] = lastFetch.preTemp \o lastFetch.rsp.body
            /\ Len(files[d]) = N + Len(lastFetch.rsp.body)
            /\ ~Exists(files, TempOf(d))

\* a resumed download that rebuilt the file the manifest describes
C5_Witness ==
    /\ RangedAnswer(206)
    /\ lastFetch.ret = "True"
    /\ Len(lastFetch.rsp.body) > 0
    /\ files[Dest(lastFetch.res)] = Good(lastFetch.res)

\* C6: a temp file of N > 0 bytes and a 200 answer to the ranged request:
\* when the call succeeds the destination holds the received body alone (its
\* size is the content length, not N more), and the bytes reported to the
\* progress counter for this call are the content length.
C6_RestartOn200 ==
    (RangedAnswer(200) /\ lastFetch.ret = "True") =>
        LET d == Dest(lastFetch.res)
            content_length == Len(lastFetch.rsp.body)
        IN  /\ Exists(files, d)
            /\ files[d] = lastFetch.rsp.body
            /\ Len(files[d]) = content_length
            /\ lastFetch.reported = content_length
            /\ IF lastFetch.flag \in Kinds
               THEN progress[lastFetch.flag].finished_size
                        = lastFetch.preFinished + content_length
               ELSE TRUE

\* a restarted download that counts into the install progress
C6_Witness ==
    /\ RangedAnswer(200)
    /\ lastFetch.ret = "True"
    /\ lastFetch.flag = "download"
    /\ Len(files[Dest(lastFetch.res)]) < Len(lastFetch.preTemp)
                                           + Len(lastFetch.rsp.body)

\* C7: a 416 answer while the temp file already has the expected full size:
\* the temp file is promoted to the destination and the call does not
\* report failure.
C7_RangeNotSatisfiablePromotes ==
    (RangedAnswer(416)
        /\ Len(lastFetch.preTemp) = resource_list[lastFetch.res].size) =>
        /\ Exists(files, Dest(lastFetch.res))
        /\ ~Exists(files, TempOf(Dest(lastFetch.res)))
        /\ lastFetch.ret = "True"

\* C8: the version marker is written only by the last statement of a verify
\* pass that handled every resource, or by the entry point right after such
\* a pass; no step of an install, update, patch or merge routine, no step
\* inside a pass and no step after an abort writes it.
C8_MarkerOnlyAfterVerify ==
    [][(markerWrites' # markerWrites \/ marker' # marker) =>
         \/ pc \in VerifyPcs /\ idx = NumRes + 1
         \/ pc = "update_localVersion" /\ state = "VALIDATING"
                                        /\ markerWrites = 2]_vars

\* the marker advanced from an older version once the first pass completed
C8_Witness ==
    /\ local_version = "v1"
    /\ marker = current_version
    /\ markerWrites = 1
    /\ pc \in {"download_game", "update_game", "download_patch"}

\* C9: at the end of an install or update pass after which every resource
\* file is in place, finished_size of that kind equals its total_size.
C9_ProgressCompletes ==
    (pc = "verify2" /\ idx = 0 /\ \A i \in 1..NumRes : Exists(files, Dest(i))) =>
        LET kind == IF mode = "install" THEN "download" ELSE "update"
        IN  progress[kind].finished_size = progress[kind].total_size

\* C10: when a pass starts on its resources, its kind's total_size is the sum
\* of the declared sizes, total_count the number of resources, and the
\* finished counters are zero.
C10_TotalsPerPass ==
    PassStarts =>
        /\ progress[KindOf(pc)].total_size = SumSizes(NumRes)
        /\ progress[KindOf(pc)].total_count = NumRes
        /\ progress[KindOf(pc)].finished_size = 0
        /\ progress[KindOf(pc)].finished_count = 0

\* C11: for every operation kind finished_size never exceeds total_size,
\* whatever skips, digest matches, full, resumed and failed downloads the
\* passes contain.
C11_FinishedWithinTotal ==
    \A k \in Kinds : progress[k].finished_size <= progress[k].total_size

\* a counted pass with a resumed download behind it and work left
C11_Witness ==
    /\ RangedAnswer(206)
    /\ lastFetch.ret = "True"
    /\ lastFetch.flag \in {"download", "update"}
    /\ progress[lastFetch.flag].finished_size > 0
    /\ progress[lastFetch.flag].finished_size < progress[lastFetch.flag].total_size

\* C12: download_patch handles every entry of a non-empty patch resource
\* list and completes.
C12_PatchStagingCompletes ==
    (gamefile_index_patch.ok /\ Len(gamefile_index_patch.resource) > 0) =>
        ~(pc = "crashed" /\ crashedIn = "download_patch")

\* the patch index lists a diff package, an entry without fromFolder
HasDiffPackage ==
    /\ gamefile_index_patch.ok
    /\ \E k \in 1..Len(gamefile_index_patch.resource) :
          ~gamefile_index_patch.resource[k].fromFolder

\* C13: once the patch cycle of a run whose patch index lists a diff package
\* is over (download_patch and merge_patch were called), run_hpatchz has been
\* called on that package.
C13_DiffStagedThenApplied ==
    (/\ mode = "patch-update"
     /\ HasDiffPackage
     /\ pc = "done" \/ (pc = "crashed" /\ crashedIn \in {"download_patch", "merge_patch"}))
        => hpatchz.called

\* C14: a step of the merge loop leaves every file and directory of the
\* moved scratch entry in the game folder with the scratch content, no
\* directory at the path of a scratch file and nothing below it, no file at
\* the path of a scratch directory, and the other top-level entries of the
\* game folder as they were.
C14_MergeReplaces ==
    [][(pc = "merge_loop" /\ merge_items' # merge_items) =>
         \A item \in merge_items \ merge_items' :
             /\ \A p \in FilesUnder(temp_files, item) :
                   /\ Exists(files', p)
                   /\ files'[p] = temp_files[p]
                   /\ PathSeq(p) \notin dirs'
                   /\ \A q \in DOMAIN files' :
                         q = p \/ ~IsPrefix(PathSeq(p), PathSeq(q))
             /\ \A d \in DirsUnder(temp_dirs, item) :
                   /\ d \in dirs'
                   /\ \A q \in DOMAIN files' : PathSeq(q) # d
             /\ \A q \in DOMAIN files \ FilesUnder(files, item) :
                   Exists(files', q) /\ files'[q] = files[q]
             /\ DOMAIN files' \ FilesUnder(files', item)
                    = DOMAIN files \ FilesUnder(files, item)]_vars

\* the staged file a/b.txt in the game folder beside a file of the installed
\* release, the staged tree emptied
C14_Witness ==
    /\ pc = "merge_loop"
    /\ merge_items = {}
    /\ Exists(files, MergeFile(<<"a">>, "b.txt"))
    /\ files[MergeFile(<<"a">>, "b.txt")] = <<2>>
    /\ Exists(files, MergeFile(<<>>, "other.pak"))
    /\ files[MergeFile(<<>>, "other.pak")] = <<1>>
    /\ DOMAIN temp_files = {}

\* C15: after a run_hpatchz whose tool download failed or whose command
\* exited with a failure status, no step changes the game folder.
C15_ToolFailureSkipsMerge ==
    [][(hpatchz.called /\ (hpatchz.tool = "False" \/ hpatchz.exit # 0)) =>
         (files' = files /\ dirs' = dirs)]_vars

\* C16: a manifest, resource index or patch index that came back None never
\* makes a routine raise: the step that needs it is skipped.
C16_NullResultsNonFatal ==
    ~(/\ pc = "crashed"
      /\ \/ crashedIn = "__init__"
         \/ crashedIn = "verify_gamefile"
                /\ (launcher_info = None \/ gamefile_index = None)
         \/ crashedIn = "download_patch" /\ ~gamefile_index_patch.ok)

\* the phase state of the routine the entry point is in
Phase(p) ==
    IF p \in VerifyPcs THEN "VALIDATING"
    ELSE IF p = "download_game" THEN "DOWNLOADING"
    ELSE IF p = "update_game" THEN "UPDATING"
    ELSE "MERGEING"

\* C17: every step of the install, update, verify or merge routine leaves the
\* launcher in that routine's phase state, the routine's first step included.
C17_PhaseStates ==
    [][(pc \in VerifyPcs \cup {"download_game", "update_game", "merge_patch"}) =>
         state' = Phase(pc)]_vars

\* C18: a call without overwrite on an existing destination returns True,
\* makes no request, leaves every file (the destination and a temp file
\* beside it) as it was, and adds the expected size to the kind's counter.
C18_SkipExisting ==
    [][(lastFetch'.called /\ lastFetch'.preDest /\ ~lastFetch'.overwrite) =>
         /\ lastFetch'.ret = "True"
         /\ ~lastFetch'.requested
         /\ lastFetch'.rsp = NoRsp
         /\ files' = files
         /\ lastFetch'.flag \in Kinds
         /\ progress'[lastFetch'.flag].finished_size =
                progress[lastFetch'.flag].finished_size
                    + resource_list[lastFetch'.res].size]_vars

\* a skipped file with a temp file lying beside it
C18_Witness ==
    /\ lastFetch.called
    /\ lastFetch.preDest
    /\ ~lastFetch.overwrite
    /\ Exists(files, TempOf(Dest(lastFetch.res)))
    /\ progress["download"].finished_size >= resource_list[lastFetch.res].size

\* the server answered with a status other than 200 and 206, the 416 on a
\* temp file of the full size apart
UnexpectedStatus ==
    /\ lastFetch.called
    /\ lastFetch.requested
    /\ lastFetch.rsp.kind \in {"response", "http_error"}
    /\ lastFetch.rsp.status \notin {200, 206}
    /\ ~(lastFetch.rsp.status = 416
            /\ Len(lastFetch.preTemp) = resource_list[lastFetch.res].size)

\* C19: on an unexpected status the call returns False, there is no
\* destination file, and the temp file is as before, so that the next call
\* resumes from the same offset.
C19_UnexpectedStatusFails ==
    UnexpectedStatus =>
        LET d == Dest(lastFetch.res)
        IN  /\ lastFetch.ret = "False"
            /\ ~Exists(files, d)
            /\ ResumeOffset(files, d) = Len(lastFetch.preTemp)
            /\ Len(lastFetch.preTemp) > 0 => files[TempOf(d)] = lastFetch.preTemp

\* a 416 on a partial temp file, which is kept
C19_Witness ==
    /\ UnexpectedStatus
    /\ lastFetch.rsp.status = 416
    /\ Exists(files, TempOf(Dest(lastFetch.res)))

\* C20: a step of the update pass on a file whose digest equals the
\* manifest's makes no request, changes no file and adds the declared size
\* to the update counter; on any other file (digest differs, file missing) it
\* calls the downloader with overwrite = True.
C20_UpdatePass ==
    [][(pc = "update_game" /\ idx \in 1..NumRes) =>
         LET file == resource_list[idx]
             matches == Exists(files, file.dest)
                            /\ md5(files[file.dest]) = file.md5
         IN  IF matches
             THEN /\ ~lastFetch'.called
                  /\ files' = files
                  /\ progress'["update"].finished_size =
                         progress["update"].finished_size + file.size
             ELSE /\ lastFetch'.called
                  /\ lastFetch'.res = idx
                  /\ lastFetch'.overwrite
                  /\ lastFetch'.requested
                  /\ lastFetch'.flag = "update"]_vars

\* a corrupt file replaced by the update pass
C20_Witness ==
    /\ mode = "update"
    /\ pc \in {"update_game", "verify2"}
    /\ lastFetch.called
    /\ lastFetch.flag = "update"
    /\ lastFetch.preDest
    /\ lastFetch.ret = "True"
    /\ files[Dest(lastFetch.res)] = Good(lastFetch.res)

\* the names of the manifest's dests that lie in the packed-resource directory
ReferencedPaks == {Dest(i).name : i \in {j \in 1..NumRes : Dest(j).dir = PaksDir}}

\* C21: the step that begins a verify pass and reaches the per-file loop
\* deletes every file of the packed-resource directory whose name no manifest
\* dest under that directory carries (a temp file's name is name + ".temp"),
\* keeps every referenced file with its content, touches no file outside that
\* directory and creates none.
C21_PrunePass ==
    [][(pc \in VerifyPcs /\ idx = 0 /\ idx' = 1) =>
         /\ \A p \in DOMAIN files :
               (p.dir = PaksDir /\ (p.temp \/ p.name \notin ReferencedPaks))
                   => ~Exists(files', p)
         /\ \A p \in DOMAIN files :
               (p.dir # PaksDir \/ (~p.temp /\ p.name \in ReferencedPaks))
                   => Exists(files', p) /\ files'[p] = files[p]
         /\ DOMAIN files' \subseteq DOMAIN files]_vars

\* a first pass right after its prune: a referenced pak and a temp file
\* outside the packed-resource directory are there, the stale pak is not
C21_Witness ==
    /\ pc = "verify1"
    /\ idx = 1
    /\ Exists(files, Dest(2))
    /\ Exists(files, TempOf(Dest(1)))
    /\ ~Exists(files, StalePak)
    /\ \A p \in DOMAIN files : p.dir = PaksDir => p.name \in ReferencedPaks

\* C22: once select_cdn has run, cdn_node is None when no node of the list
\* has K1 = 1 and K2 = 1, and otherwise the url of a node with K1 = 1 and
\* K2 = 1 whose P no such node exceeds.
C22_CdnSelection ==
    cdn_node # "unset" =>
        LET ok == {i \in 1..Len(cdnlist) : cdnlist[i].K1 = 1 /\ cdnlist[i].K2 = 1}
        IN  IF ok = {} THEN cdn_node = None
            ELSE \E i \in ok : /\ cdn_node = cdnlist[i].url
                               /\ \A j \in ok : cdnlist[j].P <= cdnlist[i].P

\* the list with priorities 1, 5 and an ineligible 9: the node with P = 5
C22_Witness ==
    /\ Len(cdnlist) = 3
    /\ cdnlist[1] = [url |-> "cdn1", P |-> 1, K1 |-> 1, K2 |-> 1]
    /\ cdnlist[2] = [url |-> "cdn2", P |-> 5, K1 |-> 1, K2 |-> 1]
    /\ cdnlist[3] = [url |-> "cdn3", P |-> 9, K1 |-> 0, K2 |-> 1]
    /\ cdn_node = "cdn2"

\* C23: on a constructed launcher support_incremental_patching is true
\* exactly when there is a local version, patchConfig has an entry of that
\* version and the entry's ext is not empty; when it is false the patch index
\* was not fetched (gamefile_index_patch is still None).
C23_PatchEligibility ==
    (launcher_info = "ok" /\ pc \notin {"init", "crashed"}) =>
        LET eligible ==
                /\ local_version \in Versions
                /\ \E k \in 1..Len(patchConfig) :
                      /\ patchConfig[k].version = local_version
                      /\ patchConfig[k].ext > 0
        IN  /\ support_incremental_patching <=> eligible
            /\ ~support_incremental_patching => gamefile_index_patch = NoPatchIndex

\* a launcher with patching supported and the patch index fetched
C23_Witness ==
    /\ Constructed
    /\ local_version = "v1"
    /\ support_incremental_patching
    /\ gamefile_index_patch.ok

\* C24: a step of the merge loop leaves every file of the game folder whose
\* path is neither a file nor a directory of the scratch tree, and does not
\* lie below a scratch file, in place with its content.
C24_MergeFrame ==
    [][(pc = "merge_loop" /\ merge_items' # merge_items) =>
         \A q \in DOMAIN files :
             (/\ ~Exists(temp_files, q)
              /\ PathSeq(q) \notin temp_dirs
              /\ \A p \in DOMAIN temp_files : ~IsPrefix(PathSeq(p), PathSeq(q)))
                 => Exists(files', q) /\ files'[q] = files[q]]_vars

\* C25: whenever the marker file is written, every manifest resource's file
\* exists with the digest the manifest gives.
C25_MarkerImpliesVerified ==
    [][(markerWrites' # markerWrites) =>
         \A i \in 1..NumRes :
             /\ Exists(files, Dest(i))
             /\ md5(files[Dest(i)]) = resource_list[i].md5]_vars

\* C26 as stated: after a call with overwrite on an existing destination
\* that did not return True, the destination file is still there.
C26_OverwriteKeepsOld ==
    (lastFetch.called /\ lastFetch.overwrite /\ lastFetch.preDest
        /\ lastFetch.ret # "True")
        => Exists(files, Dest(lastFetch.res))

\* C26, amended: a call with overwrite on an existing destination deletes it
\* before the request; afterwards a destination file exists exactly when the
\* call returned True, and then it holds what this call and the resumed temp
\* file delivered.
C26_OverwriteDeletesFirst ==
    (lastFetch.called /\ lastFetch.overwrite /\ lastFetch.preDest) =>
        LET d == Dest(lastFetch.res)
        IN  /\ lastFetch.requested
            /\ Exists(files, d) <=> lastFetch.ret = "True"
            /\ lastFetch.ret = "True" =>
                  files[d] = (IF lastFetch.rsp.status = 206
                              THEN lastFetch.preTemp ELSE <<>>) \o lastFetch.rsp.body

\* an overwrite of an existing file that failed: the file is gone
C26_Witness ==
    /\ lastFetch.called
    /\ lastFetch.overwrite
    /\ lastFetch.preDest
    /\ lastFetch.ret = "False"
    /\ ~Exists(files, Dest(lastFetch.res))

====
